---- MODULE Spec2Model ----
(***************************************************************************)
(* A model of src/index.js: IterativeCompare, the promise based merge      *)
(* comparison of two pull iterators.                                        *)
(*                                                                          *)
(* The engine's fields (_iter1, _iter2, _results, _deferred) are variables. *)
(* The Q deferred behind _deferred is modelled by its state (deferred), the *)
(* value or reason it settled with, and the progress notifications it has   *)
(* emitted.  The two sources are external: each pull draws its outcome      *)
(* (plain value, future, raise; later fulfilment or rejection of the        *)
(* future) from the environment.  Every synchronous run of engine code      *)
(* (compare(), a then callback, a fail callback) is one action.             *)
(***************************************************************************)
EXTENDS Integers, Sequences, FiniteSets, TLC

VARIABLES
    options,    \* construction options: which compareFn / extractFn is installed
    shape,      \* shape[id]: what kind of object source id is
    iter1,      \* this._iter1: id of the first source, 0 while unset
    iter2,      \* this._iter2
    results,    \* this._results
    deferred,   \* this._deferred: "null", or the state of the Q deferred
    value,      \* the list the deferred resolved with
    reason,     \* the error the deferred was rejected with
    notifs,     \* the lists carried by the progress notifications, in order
    settles,    \* how many times resolve()/reject() was called on the deferred
    pend,       \* pend[id]: the promise of the outstanding pull on source id
    pulls,      \* pulls[id]: how many times source id has been invoked
    produced,   \* produced[id]: the values source id has yielded, in order
    wait,       \* the promise chain the engine is suspended on
    calls,      \* how many times compare() has been invoked
    lastCall,   \* how the latest compare() invocation ended
    failure,    \* history: the first failure of a pull, comparator or extractor
    log         \* history: the pulls issued and the comparator and extractor
                \* invocations, in order

vars == << options, shape, iter1, iter2, results, deferred, value, reason,
           notifs, settles, pend, pulls, produced, wait, calls, lastCall,
           failure, log >>

----------------------------------------------------------------------------
(* Bounds of the model. *)

\* total number of elements the two sources yield before they are exhausted
MaxItems == 3
\* elements are 0..MaxVal; 0 is the falsy element
MaxVal == 3
\* number of compare() invocations on the instance
MaxCalls == 2

----------------------------------------------------------------------------
(* Values. *)

\* JS null / undefined: an exhausted pull, an absent extractor argument,
\* the cmpResult of a one-sided _addResult
Null == -9

Elems == 0 .. MaxVal
Sources == {1, 2}
Shapes == {"function", "object", "invalid"}

\* JS truthiness of a pulled value
Truthy(v) == v # Null /\ v # 0

NoErr == "none"
\* the failure of source id (raised, or the reason of its rejected future)
SrcErr(id) == IF id = 1 THEN "E_source1" ELSE "E_source2"
SrcErrs == {SrcErr(id) : id \in Sources}

\* promise states of a pull
NoPull == [st |-> "none", v |-> Null]
Pending == [st |-> "pending", v |-> Null]
Fulfilled(v) == [st |-> "ok", v |-> v]
Rejected == [st |-> "err", v |-> Null]

\* the chain the engine waits on
Idle == [kind |-> "none", held |-> Null, rej |-> NoErr]
Waiting(k, h) == [kind |-> k, held |-> h, rej |-> NoErr]
Caught(e) == [kind |-> "caught", held |-> Null, rej |-> e]

----------------------------------------------------------------------------
(* The sources (external collaborators). *)

\* source id has signalled exhaustion with null/undefined
Exhausted(prod) == \E k \in 1 .. Len(prod) : prod[k] = Null

\* number of elements the two sources have yielded so far
Count(prod) == Cardinality({k \in 1 .. Len(prod) : prod[k] # Null})
Yielded(s) == Count(s.produced[1]) + Count(s.produced[2])

\* what source id may yield next: an exhausted source stays exhausted, and
\* the sources are finite
NextVals(s, id) ==
    IF Exhausted(s.produced[id]) \/ Yielded(s) >= MaxItems
    THEN {Null}
    ELSE Elems \cup {Null}

----------------------------------------------------------------------------
(* The engine's state as a record, so that a synchronous run of engine     *)
(* code is a function from the state before to the possible states after.  *)

Cur == [iter1 |-> iter1, iter2 |-> iter2, results |-> results,
        deferred |-> deferred, value |-> value, reason |-> reason,
        notifs |-> notifs, settles |-> settles, pend |-> pend,
        pulls |-> pulls, produced |-> produced, wait |-> wait,
        failure |-> failure, log |-> log]

Install(s) ==
    /\ iter1' = s.iter1
    /\ iter2' = s.iter2
    /\ results' = s.results
    /\ deferred' = s.deferred
    /\ value' = s.value
    /\ reason' = s.reason
    /\ notifs' = s.notifs
    /\ settles' = s.settles
    /\ pend' = s.pend
    /\ pulls' = s.pulls
    /\ produced' = s.produced
    /\ wait' = s.wait
    /\ failure' = s.failure
    /\ log' = s.log

\* record the first failure
Failed(s, e) == IF s.failure = NoErr THEN [s EXCEPT !.failure = e] ELSE s

\* the outcome of a run of synchronous code: the state it leaves, and the
\* error it threw, if any
Done(s) == [err |-> NoErr, s |-> s]
Threw(e, s) == [err |-> e, s |-> s]

----------------------------------------------------------------------------
(* Q.defer(): resolve, reject and notify act on a pending deferred only. *)

\* mutant: the engine is released for reuse once it has resolved
ResolveAndRelease(s, list) ==
    [s EXCEPT !.settles = @ + 1,
              !.deferred = IF @ = "pending" THEN "null" ELSE @,
              !.value = IF s.deferred = "pending" THEN list ELSE @]

Resolve(s, list) ==
    [s EXCEPT !.settles = @ + 1,
              !.deferred = IF @ = "pending" THEN "resolved" ELSE @,
              !.value = IF s.deferred = "pending" THEN list ELSE @]

Reject(s, e) ==
    [s EXCEPT !.settles = @ + 1,
              !.deferred = IF @ = "pending" THEN "rejected" ELSE @,
              !.reason = IF s.deferred = "pending" THEN e ELSE @]

\* a notification carries the list; the model also records which sources had
\* a pull outstanding when it was emitted
Outstanding(s) == {id \in Sources : s.pend[id].st # "none"}

Notify(s, list) ==
    IF s.deferred = "pending"
    THEN [s EXCEPT !.notifs = Append(@, [list |-> list, pending |-> Outstanding(s)])]
    ELSE s

\* history: an invocation of fn (a pull on source v1, compareFn( v1, v2 ),
\* extractFn( v1, v2, c )) and the pulls outstanding when it is made
Logged(s, fn, v1, v2, c) ==
    [s EXCEPT !.log = Append(@, [fn |-> fn, v1 |-> v1, v2 |-> v2, c |-> c,
                                 pending |-> Outstanding(s)])]

----------------------------------------------------------------------------
(* callIter: invoke the source and normalise what it returns to a promise. *)
(* faulty: whether the environment may fail (raise, reject) in this run.   *)

callIter(s, id, faulty) ==
    IF shape[id] = "invalid"
    THEN {Threw("E_notInvokable", s)}
    ELSE LET s1 == [Logged(s, "pull", id, Null, Null) EXCEPT !.pulls[id] = @ + 1] IN
         \* the source returns a future
         {Done([s1 EXCEPT !.pend[id] = Pending])}
         \* the source returns a raw value, wrapped in a resolved promise
         \cup {Done([s1 EXCEPT !.pend[id] = Fulfilled(v),
                               !.produced[id] = Append(@, v)]) :
                 v \in NextVals(s, id)}
         \* the source raises
         \cup (IF faulty THEN {Threw(SrcErr(id), s1)} ELSE {})

----------------------------------------------------------------------------
(* The comparator and the extractor. *)

\* mutant: the order of the default comparator is reversed
defaultCmpReversed(a, b) == IF a = b THEN 0 ELSE (IF a < b THEN 1 ELSE -1)

defaultCmp(a, b) == IF a = b THEN 0 ELSE (IF a < b THEN -1 ELSE 1)

\* a custom comparator is any function to -1, 0, 1, and may raise
compareFn(a, b, faulty) ==
    IF options.compareFn = "default"
    THEN {[err |-> NoErr, c |-> defaultCmp(a, b)]}
    ELSE {[err |-> NoErr, c |-> c] : c \in {-1, 0, 1}}
         \cup (IF faulty THEN {[err |-> "E_compareFn", c |-> Null]} ELSE {})

NoRecord == [value |-> Null, exists |-> "none"]

defaultExtract(v1, v2, cmpResult) ==
    IF Truthy(v1) /\ Truthy(v2)
    THEN [err |-> NoErr, rec |-> [value |-> v1, exists |-> "both"]]
    ELSE IF Truthy(v1)
    THEN [err |-> NoErr, rec |-> [value |-> v1, exists |-> "left"]]
    ELSE IF Truthy(v2)
    THEN [err |-> NoErr, rec |-> [value |-> v2, exists |-> "right"]]
    ELSE [err |-> "E_invalidArguments", rec |-> NoRecord]

\* a custom extractor tags the record by the comparison result, and may raise
customExtract(v1, v2, cmpResult) ==
    [err |-> NoErr,
     rec |-> [value |-> IF cmpResult > 0 THEN v2 ELSE v1,
              exists |-> IF cmpResult = 0 THEN "both"
                         ELSE IF cmpResult < 0 THEN "left" ELSE "right"]]

extractFn(v1, v2, cmpResult, faulty) ==
    IF options.extractFn = "default"
    THEN {defaultExtract(v1, v2, cmpResult)}
    ELSE {customExtract(v1, v2, cmpResult)}
         \cup (IF faulty THEN {[err |-> "E_extractFn", rec |-> NoRecord]} ELSE {})

----------------------------------------------------------------------------
(* The engine's methods.  Each returns the set of outcomes of one          *)
(* synchronous run: the environment's choices make it a set.               *)

\* null < 0 and null > 0 are both false in JS
Lt0(c) == c # Null /\ c < 0
Gt0(c) == c # Null /\ c > 0

\* this._results.push( this.extractFn( a1, a2, c ) )
Push(s, a1, a2, c, faulty) ==
    LET s1 == Logged(s, "extractFn", a1, a2, c) IN
    {IF x.err # NoErr THEN Threw(x.err, s1)
     ELSE Done([s1 EXCEPT !.results = Append(@, x.rec)]) :
        x \in extractFn(a1, a2, c, faulty)}

\* mutant: records of the right side are appended without a notification
_addResultQuietRight(s, v1, v2, cmpResult, faulty) ==
    IF cmpResult = 0 /\ Truthy(v1) /\ Truthy(v2)
    THEN {IF r.err # NoErr THEN r ELSE Done(Notify(r.s, r.s.results)) :
             r \in Push(s, v1, v2, cmpResult, faulty)}
    ELSE IF Lt0(cmpResult) \/ ~Truthy(v2)
    THEN {IF r.err # NoErr THEN r ELSE Done(Notify(r.s, r.s.results)) :
             r \in Push(s, v1, Null, -1, faulty)}
    ELSE IF Gt0(cmpResult) \/ ~Truthy(v1)
    THEN Push(s, Null, v2, 1, faulty)
    ELSE {Done(s)}

\* mutant: the record of the right side is extracted from the left value
_addResultLeftArg(s, v1, v2, cmpResult, faulty) ==
    LET pushed ==
            IF cmpResult = 0 /\ Truthy(v1) /\ Truthy(v2)
            THEN Push(s, v1, v2, cmpResult, faulty)
            ELSE IF Lt0(cmpResult) \/ ~Truthy(v2)
            THEN Push(s, v1, Null, -1, faulty)
            ELSE IF Gt0(cmpResult) \/ ~Truthy(v1)
            THEN Push(s, v1, Null, 1, faulty)
            ELSE {Done(s)}
    IN  {IF r.err # NoErr THEN r ELSE Done(Notify(r.s, r.s.results)) :
            r \in pushed}

_addResult(s, v1, v2, cmpResult, faulty) ==
    LET pushed ==
            IF cmpResult = 0 /\ Truthy(v1) /\ Truthy(v2)
            THEN Push(s, v1, v2, cmpResult, faulty)
            ELSE IF Lt0(cmpResult) \/ ~Truthy(v2)
            THEN Push(s, v1, Null, -1, faulty)
            ELSE IF Gt0(cmpResult) \/ ~Truthy(v1)
            THEN Push(s, Null, v2, 1, faulty)
            ELSE {Done(s)}
    IN  {IF r.err # NoErr THEN r ELSE Done(Notify(r.s, r.s.results)) :
            r \in pushed}

\* mutant: the left source is pulled but no callback is chained on the pull
_stepLeftUnchained(s, rightVal, faulty) ==
    callIter(s, s.iter1, faulty)

_stepLeft(s, rightVal, faulty) ==
    {IF r.err # NoErr THEN r
     ELSE Done([r.s EXCEPT !.wait = Waiting("left", rightVal)]) :
        r \in callIter(s, s.iter1, faulty)}

\* mutant: the left value is not kept while the right source is pulled
_stepRightForgets(s, leftVal, faulty) ==
    {IF r.err # NoErr THEN r
     ELSE Done([r.s EXCEPT !.wait = Waiting("right", Null)]) :
        r \in callIter(s, s.iter2, faulty)}

_stepRight(s, leftVal, faulty) ==
    {IF r.err # NoErr THEN r
     ELSE Done([r.s EXCEPT !.wait = Waiting("right", leftVal)]) :
        r \in callIter(s, s.iter2, faulty)}

\* mutant: the callback is chained on the pull of _iter1 alone
_stepBothFirstOnly(s, faulty) ==
    UNION {IF r1.err # NoErr THEN {r1}
           ELSE {IF r2.err # NoErr THEN r2
                 ELSE Done([r2.s EXCEPT !.wait = Waiting("left", Null)]) :
                    r2 \in callIter(r1.s, s.iter2, faulty)} :
              r1 \in callIter(s, s.iter1, faulty)}

\* the array literal calls callIter on _iter1 first, then on _iter2
_stepBoth(s, faulty) ==
    UNION {IF r1.err # NoErr THEN {r1}
           ELSE {IF r2.err # NoErr THEN r2
                 ELSE Done([r2.s EXCEPT !.wait = Waiting("both", Null)]) :
                    r2 \in callIter(r1.s, s.iter2, faulty)} :
              r1 \in callIter(s, s.iter1, faulty)}

\* mutant: the lesser side is kept and the greater side advanced
_stepWrongSide(s, v1, v2, cmp, faulty) ==
    IF cmp = 0 THEN _stepBoth(s, faulty)
    ELSE IF cmp < 0 THEN _stepRight(s, v1, faulty)
    ELSE _stepLeft(s, v2, faulty)

\* mutant: the value held back is not handed to the next step
_stepDropsHeld(s, v1, v2, cmp, faulty) ==
    IF cmp = 0 THEN _stepBoth(s, faulty)
    ELSE IF cmp < 0 THEN _stepLeft(s, Null, faulty)
    ELSE _stepRight(s, Null, faulty)

\* mutant: after an equal pair only the left side is advanced
_stepKeepsEqualRight(s, v1, v2, cmp, faulty) ==
    IF cmp <= 0 THEN _stepLeft(s, v2, faulty)
    ELSE _stepRight(s, v1, faulty)

_step(s, v1, v2, cmp, faulty) ==
    IF cmp = 0 THEN _stepBoth(s, faulty)
    ELSE IF cmp < 0 THEN _stepLeft(s, v2, faulty)
    ELSE _stepRight(s, v1, faulty)

\* run next on every outcome of first that did not throw
AndThenStep(first, v1, v2, cmp, faulty) ==
    UNION {IF r.err # NoErr THEN {r} ELSE _step(r.s, v1, v2, cmp, faulty) :
              r \in first}

\* mutant: the end of both sources is notified as progress before resolving
_compareValuesNotifyEnd(s, val1, val2, faulty) ==
    IF Truthy(val1) /\ Truthy(val2)
    THEN LET s1 == Logged(s, "compareFn", val1, val2, Null) IN
         UNION {IF cr.err # NoErr THEN {Threw(cr.err, s1)}
                ELSE AndThenStep(_addResult(s1, val1, val2, cr.c, faulty),
                                 val1, val2, cr.c, faulty) :
                   cr \in compareFn(val1, val2, faulty)}
    ELSE IF Truthy(val1)
    THEN UNION {IF r.err # NoErr THEN {r} ELSE _stepLeft(r.s, Null, faulty) :
                   r \in _addResult(s, val1, val2, Null, faulty)}
    ELSE IF Truthy(val2)
    THEN UNION {IF r.err # NoErr THEN {r} ELSE _stepRight(r.s, Null, faulty) :
                   r \in _addResult(s, val1, val2, Null, faulty)}
    ELSE {Done(Resolve(Notify(s, s.results), s.results))}

\* mutant: after a record of the right side alone both sources are pulled
_compareValuesPullsBoth(s, val1, val2, faulty) ==
    IF Truthy(val1) /\ Truthy(val2)
    THEN LET s1 == Logged(s, "compareFn", val1, val2, Null) IN
         UNION {IF cr.err # NoErr THEN {Threw(cr.err, s1)}
                ELSE AndThenStep(_addResult(s1, val1, val2, cr.c, faulty),
                                 val1, val2, cr.c, faulty) :
                   cr \in compareFn(val1, val2, faulty)}
    ELSE IF Truthy(val1)
    THEN UNION {IF r.err # NoErr THEN {r} ELSE _stepLeft(r.s, Null, faulty) :
                   r \in _addResult(s, val1, val2, Null, faulty)}
    ELSE IF Truthy(val2)
    THEN UNION {IF r.err # NoErr THEN {r} ELSE _stepBoth(r.s, faulty) :
                   r \in _addResult(s, val1, val2, Null, faulty)}
    ELSE {Done(Resolve(s, s.results))}

\* mutant: only null and undefined signal exhaustion
_compareValuesNullOnly(s, val1, val2, faulty) ==
    IF val1 # Null /\ val2 # Null
    THEN LET s1 == Logged(s, "compareFn", val1, val2, Null) IN
         UNION {IF cr.err # NoErr THEN {Threw(cr.err, s1)}
                ELSE AndThenStep(_addResult(s1, val1, val2, cr.c, faulty),
                                 val1, val2, cr.c, faulty) :
                   cr \in compareFn(val1, val2, faulty)}
    ELSE IF val1 # Null
    THEN UNION {IF r.err # NoErr THEN {r} ELSE _stepLeft(r.s, Null, faulty) :
                   r \in _addResult(s, val1, val2, Null, faulty)}
    ELSE IF val2 # Null
    THEN UNION {IF r.err # NoErr THEN {r} ELSE _stepRight(r.s, Null, faulty) :
                   r \in _addResult(s, val1, val2, Null, faulty)}
    ELSE {Done(Resolve(s, s.results))}

_compareValues(s, val1, val2, faulty) ==
    IF Truthy(val1) /\ Truthy(val2)
    THEN LET s1 == Logged(s, "compareFn", val1, val2, Null) IN
         UNION {IF cr.err # NoErr THEN {Threw(cr.err, s1)}
                ELSE AndThenStep(_addResult(s1, val1, val2, cr.c, faulty),
                                 val1, val2, cr.c, faulty) :
                   cr \in compareFn(val1, val2, faulty)}
    ELSE IF Truthy(val1)
    THEN UNION {IF r.err # NoErr THEN {r} ELSE _stepLeft(r.s, Null, faulty) :
                   r \in _addResult(s, val1, val2, Null, faulty)}
    ELSE IF Truthy(val2)
    THEN UNION {IF r.err # NoErr THEN {r} ELSE _stepRight(r.s, Null, faulty) :
                   r \in _addResult(s, val1, val2, Null, faulty)}
    ELSE {Done(Resolve(s, s.results))}

----------------------------------------------------------------------------
(* Actions. *)

\* mutant: the slots and the accumulator are assigned before the guard
compareLateGuard(i1, i2, faulty) ==
    /\ calls < MaxCalls
    /\ deferred = "null" => (i1 = 1 /\ i2 = 2)
    /\ calls' = calls + 1
    /\ UNCHANGED << options, shape >>
    /\ IF deferred # "null"
       THEN /\ lastCall' = "E_alreadyComparing"
            /\ iter1' = i1
            /\ iter2' = i2
            /\ results' = << >>
            /\ UNCHANGED << deferred, value, reason, notifs, settles, pend,
                            pulls, produced, wait, failure, log >>
       ELSE \E r \in _stepBoth([Cur EXCEPT !.iter1 = i1, !.iter2 = i2,
                                           !.results = << >>,
                                           !.deferred = "pending"], faulty) :
                /\ Install(IF r.err \in SrcErrs THEN Failed(r.s, r.err) ELSE r.s)
                /\ lastCall' = IF r.err = NoErr THEN "returned" ELSE r.err

\* compare( iter1, iter2 ).  The first invocation is named compare(1, 2):
\* source 1 is the one passed first.
compare(i1, i2, faulty) ==
    /\ calls < MaxCalls
    /\ deferred = "null" => (i1 = 1 /\ i2 = 2)
    /\ calls' = calls + 1
    /\ UNCHANGED << options, shape >>
    /\ IF deferred # "null"
       THEN /\ lastCall' = "E_alreadyComparing"
            /\ UNCHANGED << iter1, iter2, results, deferred, value, reason,
                            notifs, settles, pend, pulls, produced, wait,
                            failure, log >>
       ELSE \E r \in _stepBoth([Cur EXCEPT !.iter1 = i1, !.iter2 = i2,
                                           !.results = << >>,
                                           !.deferred = "pending"], faulty) :
                /\ Install(IF r.err \in SrcErrs THEN Failed(r.s, r.err) ELSE r.s)
                /\ lastCall' = IF r.err = NoErr THEN "returned" ELSE r.err

\* mutant: every pull carries its own fail callback
AwaitedAlways(id) == id \in Sources

\* the pull a chain is suspended on
Awaited(id) ==
    \/ wait.kind = "both" /\ id \in {iter1, iter2}
    \/ wait.kind = "left" /\ id = iter1
    \/ wait.kind = "right" /\ id = iter2

\* the source settles the future it returned: with its next value, or with
\* a failure, which rejects the chain built on it (Q.all rejects with the
\* first rejection)
Settle(id, faulty) ==
    /\ pend[id].st = "pending"
    /\ \/ \E v \in NextVals(Cur, id) :
            /\ pend' = [pend EXCEPT ![id] = Fulfilled(v)]
            /\ produced' = [produced EXCEPT ![id] = Append(@, v)]
            /\ UNCHANGED << wait, failure >>
       \/ /\ faulty
          /\ pend' = [pend EXCEPT ![id] = Rejected]
          /\ wait' = IF Awaited(id) THEN Caught(SrcErr(id)) ELSE wait
          /\ failure' = IF failure = NoErr THEN SrcErr(id) ELSE failure
          /\ UNCHANGED produced
    /\ UNCHANGED << options, shape, iter1, iter2, results, deferred, value,
                    reason, notifs, settles, pulls, calls, lastCall, log >>

\* an error thrown inside a then callback rejects the promise then returned
Catch(r) ==
    IF r.err = NoErr THEN r.s
    ELSE Failed([r.s EXCEPT !.wait = Caught(r.err)], r.err)

\* the state a then callback starts from: the awaited pulls are consumed
Resume(ids) ==
    [Cur EXCEPT !.wait = Idle,
                !.pend = [id \in Sources |-> IF id \in ids THEN NoPull ELSE pend[id]]]

\* mutant: the callback of _stepBoth runs as soon as the first pull completes
ThenBothEager(faulty) ==
    /\ wait.kind = "both"
    /\ pend[iter1].st = "ok"
    /\ \E r \in _compareValues(Resume({iter1, iter2}),
                               pend[iter1].v, pend[iter2].v, faulty) :
            Install(Catch(r))
    /\ UNCHANGED << options, shape, calls, lastCall >>

\* the then callback of _stepBoth
ThenBoth(faulty) ==
    /\ wait.kind = "both"
    /\ pend[iter1].st = "ok"
    /\ pend[iter2].st = "ok"
    /\ \E r \in _compareValues(Resume({iter1, iter2}),
                               pend[iter1].v, pend[iter2].v, faulty) :
            Install(Catch(r))
    /\ UNCHANGED << options, shape, calls, lastCall >>

\* the then callback of _stepLeft
ThenLeft(faulty) ==
    /\ wait.kind = "left"
    /\ pend[iter1].st = "ok"
    /\ \E r \in _compareValues(Resume({iter1}), pend[iter1].v, wait.held, faulty) :
            Install(Catch(r))
    /\ UNCHANGED << options, shape, calls, lastCall >>

\* the then callback of _stepRight
ThenRight(faulty) ==
    /\ wait.kind = "right"
    /\ pend[iter2].st = "ok"
    /\ \E r \in _compareValues(Resume({iter2}), wait.held, pend[iter2].v, faulty) :
            Install(Catch(r))
    /\ UNCHANGED << options, shape, calls, lastCall >>

\* mutant: the fail callback rejects and then pulls both sources again
FailAndRestart ==
    /\ wait.kind = "caught"
    /\ \E r \in _stepBoth(Reject([Cur EXCEPT !.wait = Idle], wait.rej), TRUE) :
            Install(Catch(r))
    /\ UNCHANGED << options, shape, calls, lastCall >>

\* the fail callback of _stepLeft, _stepRight and _stepBoth
Fail ==
    /\ wait.kind = "caught"
    /\ Install(Reject([Cur EXCEPT !.wait = Idle], wait.rej))
    /\ UNCHANGED << options, shape, calls, lastCall >>

----------------------------------------------------------------------------
(* Specifications. *)

\* the options tried: the defaults, a custom comparator, a custom extractor
OptionSets ==
    {[compareFn |-> "default", extractFn |-> "default"],
     [compareFn |-> "custom", extractFn |-> "default"],
     [compareFn |-> "default", extractFn |-> "custom"]}

\* the sources tried: every shape in either position
ShapePairs ==
    {sh \in [Sources -> Shapes] : sh[1] # sh[2] \/ sh[1] = "invalid"}

\* new IterativeCompare( options ), and two sources
Init ==
    /\ options \in OptionSets
    /\ shape \in ShapePairs
    /\ iter1 = 0
    /\ iter2 = 0
    /\ results = << >>
    /\ deferred = "null"
    /\ value = << >>
    /\ reason = NoErr
    /\ notifs = << >>
    /\ settles = 0
    /\ pend = [id \in Sources |-> NoPull]
    /\ pulls = [id \in Sources |-> 0]
    /\ produced = [id \in Sources |-> << >>]
    /\ wait = Idle
    /\ calls = 0
    /\ lastCall = "none"
    /\ failure = NoErr
    /\ log = << >>

CallArgs == {<< 1, 2 >>, << 2, 1 >>}

Compare == \E a \in CallArgs : compare(a[1], a[2], TRUE)
SettlePull == \E id \in Sources : Settle(id, TRUE)
StepBothThen == ThenBoth(TRUE)
StepLeftThen == ThenLeft(TRUE)
StepRightThen == ThenRight(TRUE)

Next ==
    \/ Compare
    \/ SettlePull
    \/ StepBothThen
    \/ StepLeftThen
    \/ StepRightThen
    \/ Fail

Spec == Init /\ [][Next]_vars

\* The runs in which nothing fails: both sources are invokable, no source
\* raises or rejects, comparator and extractor do not raise.  Every future a
\* source returned is eventually settled, and Q runs every callback whose
\* promise is fulfilled.
InitLive == Init /\ shape[1] # "invalid" /\ shape[2] # "invalid"

\* one invocation, compare(1, 2): later invocations change nothing
CompareOK == deferred = "null" /\ compare(1, 2, FALSE)
SettlePullOK == \E id \in Sources : Settle(id, FALSE)
StepBothThenOK == ThenBoth(FALSE)
StepLeftThenOK == ThenLeft(FALSE)
StepRightThenOK == ThenRight(FALSE)

NextLive ==
    \/ CompareOK
    \/ SettlePullOK
    \/ StepBothThenOK
    \/ StepLeftThenOK
    \/ StepRightThenOK

SpecLive ==
    /\ InitLive
    /\ [][NextLive]_vars
    /\ WF_vars(SettlePullOK)
    /\ WF_vars(StepBothThenOK)
    /\ WF_vars(StepLeftThenOK)
    /\ WF_vars(StepRightThenOK)

----------------------------------------------------------------------------
(* Vocabulary of the properties. *)

\* the elements source id has yielded (its exhaustion signal left out)
Items(id) == SelectSeq(produced[id], LAMBDA v : v # Null)
Range(q) == {q[k] : k \in 1 .. Len(q)}
StrictlyAscending(q) == \A i, j \in 1 .. Len(q) : i < j => q[i] < q[j]
AllTruthy(q) == \A k \in 1 .. Len(q) : Truthy(q[k])
Defaults == options.compareFn = "default" /\ options.extractFn = "default"

\* the state of the engine, everything compare() assigns or a step changes
engine == << iter1, iter2, results, deferred, value, reason, notifs, settles,
             pend, pulls, produced, wait, failure, log >>

\* the provenance tag of key x in the three-way comparison of sets SA and SB
Tag(x, SA, SB) ==
    IF x \in SA /\ x \in SB THEN "both"
    ELSE IF x \in SA THEN "left" ELSE "right"

\* list is the three-way sorted merge of the strictly ascending A and B:
\* one record per key of the union, in ascending key order, tagged by
\* where the key occurs
IsSortedMerge(list, A, B) ==
    /\ Len(list) = Cardinality(Range(A) \cup Range(B))
    /\ \A k \in 1 .. Len(list) :
          /\ list[k].value \in Range(A) \cup Range(B)
          /\ list[k].exists = Tag(list[k].value, Range(A), Range(B))
    /\ \A k \in 1 .. Len(list) - 1 : list[k].value < list[k + 1].value

----------------------------------------------------------------------------
(* Properties. *)

\* C1: with the default comparator and extractor, and sources that yield
\* strictly ascending truthy elements, the list compare() resolves with is
\* the three-way sorted merge of the two sources.
C1_SortedMerge ==
    ( /\ deferred = "resolved"
      /\ Defaults
      /\ AllTruthy(Items(1)) /\ StrictlyAscending(Items(1))
      /\ AllTruthy(Items(2)) /\ StrictlyAscending(Items(2)) )
    => IsSortedMerge(value, Items(iter1), Items(iter2))

\* A = [1, 3], B = [2] resolved with left 1, right 2, left 3
C1_Witness ==
    /\ deferred = "resolved"
    /\ Defaults
    /\ Items(1) = << 1, 3 >>
    /\ Items(2) = << 2 >>
    /\ value = << [value |-> 1, exists |-> "left"],
                  [value |-> 2, exists |-> "right"],
                  [value |-> 3, exists |-> "left"] >>

\* C2: a compare() invoked while the first is still running throws
\* 'Already comparing' and changes nothing of the engine: no slot, not the
\* accumulator, not the deferred, no pull; so the first run continues from
\* the very state it was in.
C2_ReentrantCallChangesNothing ==
    [][ (calls' = calls + 1 /\ deferred = "pending")
        => (lastCall' = "E_alreadyComparing" /\ UNCHANGED engine) ]_vars

\* a second invocation has failed while the first is suspended in mid-merge
C2_Witness ==
    /\ calls = 2
    /\ lastCall = "E_alreadyComparing"
    /\ deferred = "pending"
    /\ wait.kind \in {"left", "right"}
    /\ results # << >>

\* C3 (as claimed): once a pull, the comparator or the extractor has failed
\* and the fail callback, if one is pending, has run, the deferred is
\* rejected with exactly that failure.
C3_FailureRejects ==
    (failure # NoErr /\ wait.kind # "caught")
    => (deferred = "rejected" /\ reason = failure)

\* C4: after a failure no source is pulled, no record is appended and no
\* progress is notified, whatever completes later; and the notifications
\* emitted are exactly those of the records accumulated before it.
C4_NothingAfterFailure ==
    /\ [](failure # NoErr =>
            /\ Len(notifs) = Len(results)
            /\ \A k \in 1 .. Len(notifs) : notifs[k].list = SubSeq(results, 1, k))
    /\ [][ failure # NoErr
           => (pulls' = pulls /\ results' = results /\ notifs' = notifs) ]_vars

\* source 1 has failed after a first record, the operation is rejected, and
\* the pull on source 2 issued in the same step is still outstanding
C4_Witness ==
    /\ failure = "E_source1"
    /\ deferred = "rejected"
    /\ pend[2].st = "pending"
    /\ Len(notifs) = 1

\* C5 (as claimed): when compare() fails with the not-invokable error, no
\* source has been pulled.
C5_NoPullBeforeShapeError ==
    lastCall = "E_notInvokable" => (pulls[1] = 0 /\ pulls[2] = 0)

\* C6: once compare() has been invoked the deferred is never cleared, and
\* every later invocation throws 'Already comparing' and changes nothing of
\* the engine, so no second cycle ever starts.
C6_SingleUse ==
    /\ [](calls >= 1 => deferred # "null")
    /\ [][ (calls' = calls + 1 /\ calls >= 1)
           => (lastCall' = "E_alreadyComparing" /\ UNCHANGED engine) ]_vars

\* a later invocation has failed on an engine whose cycle has resolved
C6_Witness ==
    /\ calls = 2
    /\ lastCall = "E_alreadyComparing"
    /\ deferred = "resolved"
    /\ Len(value) >= 2

Terminal == deferred \in {"resolved", "rejected"}

\* C7: resolve or reject is called at most once, exactly when the engine
\* becomes terminal; a terminal engine keeps its outcome and accumulator and
\* issues no pull; a running engine never becomes idle again.
C7_LifecycleIrreversible ==
    /\ [](settles = IF Terminal THEN 1 ELSE 0)
    /\ [](deferred = "resolved" => reason = NoErr)
    /\ [][ /\ Terminal => UNCHANGED << deferred, value, reason, results,
                                        notifs, pulls, wait >>
           /\ deferred = "pending" => deferred' # "null" ]_vars

\* the operation was rejected while a pull was outstanding, and that pull
\* has failed too
C7_Witness ==
    /\ deferred = "rejected"
    /\ reason = "E_source1"
    /\ pend[1].st = "err"
    /\ pend[2].st = "err"

\* C8: every record is notified once, after it is appended and before the
\* next pull is issued: the k-th notification carries the first k records
\* and is emitted with no pull outstanding; the accumulator only grows by
\* appends; the resolved value is the accumulator, the list of the last
\* notification.
C8_NotifyPerRecord ==
    /\ [](/\ Len(notifs) = Len(results)
          /\ \A k \in 1 .. Len(notifs) :
                /\ notifs[k].list = SubSeq(results, 1, k)
                /\ notifs[k].pending = {}
          /\ deferred = "resolved" => value = results)
    /\ [][ \/ results' = results
           \/ /\ Len(results') = Len(results) + 1
              /\ SubSeq(results', 1, Len(results)) = results ]_vars

\* three records, of the left and of the right side, have been notified
C8_Witness ==
    /\ Len(notifs) = 3
    /\ deferred = "resolved"
    /\ \E k \in 1 .. 3 : results[k].exists = "right"
    /\ \E k \in 1 .. 3 : results[k].exists = "left"

\* source id has signalled exhaustion: the last value it yielded is falsy
Signalled(id) ==
    /\ produced[id] # << >>
    /\ ~Truthy(produced[id][Len(produced[id])])

\* C9: when nothing fails, a compare() that was invoked eventually resolves;
\* it resolves only after both sources have signalled exhaustion, with the
\* whole accumulator.
C9_EventuallyResolved ==
    /\ (deferred = "pending") ~> (deferred = "resolved")
    /\ [](deferred = "resolved" =>
            /\ Signalled(1) /\ Signalled(2)
            /\ value = results
            /\ \A id \in Sources : pend[id].st = "none")

\* a run over three elements has resolved
C9_Witness ==
    /\ deferred = "resolved"
    /\ Len(Items(1)) = 2
    /\ Len(Items(2)) = 1
    /\ Len(value) = 3

BothEmpty ==
    /\ produced[1] # << >> /\ produced[1][1] = Null
    /\ produced[2] # << >> /\ produced[2][1] = Null

\* C10: when the first pull on each source signals exhaustion, each source
\* has been pulled exactly once, nothing is accumulated or notified, and
\* the callback of that step resolves with the empty list.
C10_EmptyEmpty ==
    BothEmpty =>
        /\ pulls[1] = 1 /\ pulls[2] = 1
        /\ results = << >>
        /\ notifs = << >>
        /\ \/ wait.kind = "both" /\ deferred = "pending"
           \/ wait.kind = "none" /\ deferred = "resolved" /\ value = << >>

C10_Witness == BothEmpty /\ deferred = "resolved" /\ pulls[1] = 1 /\ pulls[2] = 1

\* a then callback is due; the values it will hand to _compareValues
Suspended == wait.kind \in {"both", "left", "right"}
CurLeft == IF wait.kind = "right" THEN wait.held ELSE pend[iter1].v
CurRight == IF wait.kind = "left" THEN wait.held ELSE pend[iter2].v

\* the step appends a record; the record it appends
Appended == Len(results') = Len(results) + 1
NewRec == results'[Len(results')]

\* C11: a step that compares two present values and goes on hands exactly
\* them to the comparator; after 'both' it pulls both sources and holds
\* nothing; after 'left' it pulls only source A and holds the B value it
\* compared; after 'right' it pulls only source B and holds the A value.
\* A value held for the next step stays held until a record emits it.
C11_NextPullFollowsOutcome ==
    /\ [][ ( /\ Suspended /\ Appended /\ wait'.kind # "caught"
             /\ Truthy(CurLeft) /\ Truthy(CurRight) )
           => /\ log'[Len(log) + 1].fn = "compareFn"
              /\ log'[Len(log) + 1].v1 = CurLeft
              /\ log'[Len(log) + 1].v2 = CurRight
              /\ NewRec.exists = "both" =>
                    /\ wait' = Waiting("both", Null)
                    /\ pulls'[iter1] = pulls[iter1] + 1
                    /\ pulls'[iter2] = pulls[iter2] + 1
              /\ NewRec.exists = "left" =>
                    /\ wait' = Waiting("left", CurRight)
                    /\ NewRec.value = CurLeft
                    /\ pulls'[iter1] = pulls[iter1] + 1
                    /\ pulls'[iter2] = pulls[iter2]
              /\ NewRec.exists = "right" =>
                    /\ wait' = Waiting("right", CurLeft)
                    /\ NewRec.value = CurRight
                    /\ pulls'[iter2] = pulls[iter2] + 1
                    /\ pulls'[iter1] = pulls[iter1] ]_vars
    /\ [][ ( /\ wait.kind \in {"left", "right"} /\ Truthy(wait.held)
             /\ wait' # wait /\ wait'.kind # "caught" )
           => \/ wait'.kind = wait.kind /\ wait'.held = wait.held
              \/ Appended /\ NewRec.exists = "both"
              \/ /\ Appended
                 /\ NewRec.exists = (IF wait.kind = "left" THEN "right" ELSE "left")
                 /\ NewRec.value = wait.held ]_vars

\* two elements of source A were emitted while the 3 of source B was held
C11_Witness ==
    /\ wait = Waiting("left", 3)
    /\ Len(results) = 2
    /\ results[1].exists = "left"
    /\ results[2].exists = "left"
    /\ pulls[iter1] = 3
    /\ pulls[iter2] = 1

\* the truthy elements source id has yielded
Taken(id) == SelectSeq(produced[id], Truthy)
\* the records a source yielding q alone gives rise to
OneSided(q, side) == [k \in 1 .. Len(q) |-> [value |-> q[k], exists |-> side]]
\* the invocations the step adds to the log
NewCalls == {log'[k] : k \in Len(log) + 1 .. Len(log')}
Other(side) == IF side = "left" THEN "right" ELSE "left"
Side(id) == IF id = 1 THEN "left" ELSE "right"

\* C12: a source that has signalled exhaustion is never pulled again; from
\* then on the comparator is not invoked, every record appended is the
\* single-sided record of the other source's current element, and the
\* callback that finds both sources exhausted resolves.  A source that is
\* empty is pulled exactly once and the result is the other source's
\* elements, in order, as single-sided records.
C12_ExhaustedSide ==
    /\ [][ \A id \in Sources :
             Signalled(id) =>
                /\ pulls'[id] = pulls[id]
                /\ \A e \in NewCalls : e.fn # "compareFn"
                /\ Appended =>
                      /\ NewRec.exists = Other(Side(id))
                      /\ NewRec.value = (IF id = 1 THEN CurRight ELSE CurLeft)
                      /\ pulls'[3 - id] = pulls[3 - id] + 1 ]_vars
    /\ []( (Signalled(1) /\ Signalled(2) /\ failure = NoErr)
           => \/ deferred = "resolved"
              \/ deferred = "pending" /\ Suspended )
    /\ [][ (Signalled(1) /\ Signalled(2) /\ Suspended /\ wait' # wait)
           => (deferred' = "resolved" /\ results' = results) ]_vars
    /\ []( \A id \in Sources :
             ( /\ deferred = "resolved"
               /\ Len(produced[id]) = 1 )
             => /\ pulls[id] = 1
                /\ pulls[3 - id] = Len(Taken(3 - id)) + 1
                /\ value = OneSided(Taken(3 - id), Other(Side(id))) )

\* A empty, B = [1, 2, 3]: right 1, right 2, right 3, and A pulled once
C12_Witness ==
    /\ deferred = "resolved"
    /\ produced[1] = << Null >>
    /\ Taken(2) = << 1, 2, 3 >>
    /\ pulls[1] = 1
    /\ pulls[2] = 4
    /\ value = << [value |-> 1, exists |-> "right"],
                  [value |-> 2, exists |-> "right"],
                  [value |-> 3, exists |-> "right"] >>

\* source id has a pull that has not completed
InFlight(id) == pend[id].st = "pending"

\* C13: no pull is issued on a source that has a pull outstanding; a pull is
\* issued while another is outstanding only as the second pull of
\* _stepBoth; comparator and extractor are invoked with no pull
\* outstanding; two pulls are in flight only while the engine waits in the
\* pull-both step; and while any pull is in flight no record is appended,
\* nothing is notified and nothing is invoked.
C13_OnePullPerSource ==
    /\ [](\A k \in 1 .. Len(log) :
            /\ log[k].fn = "pull" =>
                  /\ log[k].v1 \notin log[k].pending
                  /\ log[k].pending # {} =>
                        /\ k > 1
                        /\ log[k].v1 = iter2
                        /\ log[k].pending = {iter1}
                        /\ log[k - 1].fn = "pull"
                        /\ log[k - 1].v1 = iter1
                        /\ log[k - 1].pending = {}
            /\ log[k].fn \in {"compareFn", "extractFn"} => log[k].pending = {})
    /\ []((InFlight(1) /\ InFlight(2)) => wait.kind = "both")
    /\ [][ (InFlight(1) \/ InFlight(2))
           => (log' = log /\ results' = results /\ notifs' = notifs) ]_vars

\* after a first record both sources were pulled again; the pull on source
\* A has completed and the pull on source B is still outstanding
C13_Witness ==
    /\ wait.kind = "both"
    /\ pend[1].st = "ok"
    /\ InFlight(2)
    /\ Len(results) = 1
    /\ results[1].exists = "both"
    /\ Len(log) = 6

NonDecreasing(q) == \A i, j \in 1 .. Len(q) : i < j => q[i] <= q[j]
\* how often x occurs in q; the positions of the records of key x tagged tg
Occ(q, x) == Cardinality({k \in 1 .. Len(q) : q[k] = x})
At(list, x, tg) ==
    {k \in 1 .. Len(list) : list[k].value = x /\ list[k].exists = tg}
Min(a, b) == IF a < b THEN a ELSE b
Keys(list) == [k \in 1 .. Len(list) |-> list[k].value]

\* C14: with the default comparator and non-decreasing sources, a key that
\* occurs k times in A and m times in B has min(k, m) 'both' records, then
\* k - m 'left' records if k > m, or m - k 'right' records if m > k, and
\* the resolved list is non-decreasing by key.
C14_RepeatedKeys ==
    ( /\ deferred = "resolved"
      /\ options.compareFn = "default"
      /\ NonDecreasing(Taken(1))
      /\ NonDecreasing(Taken(2)) )
    => /\ NonDecreasing(Keys(value))
       /\ \A x \in Elems :
             LET k == Occ(Taken(1), x)
                 m == Occ(Taken(2), x)
             IN  /\ Cardinality(At(value, x, "both")) = Min(k, m)
                 /\ Cardinality(At(value, x, "left")) = k - Min(k, m)
                 /\ Cardinality(At(value, x, "right")) = m - Min(k, m)
                 /\ \A i \in At(value, x, "both") :
                       \A j \in At(value, x, "left") \cup At(value, x, "right") :
                          i < j

\* A = [2, 2], B = [2]: one pair, then the second 2 of A alone
C14_Witness ==
    /\ deferred = "resolved"
    /\ options.compareFn = "default"
    /\ Taken(1) = << 2, 2 >>
    /\ Taken(2) = << 2 >>
    /\ value = << [value |-> 2, exists |-> "both"],
                  [value |-> 2, exists |-> "left"] >>

\* the last value source id yielded is the falsy element 0
YieldedFalsy(id) ==
    /\ produced[id] # << >>
    /\ produced[id][Len(produced[id])] = 0

\* C15: a pull that returns the falsy element 0 ends the source as null
\* does: no record carries a falsy value, the source is not pulled again and
\* yields nothing more, and the resolved list is the merge of the elements
\* each source yielded before its first falsy one.
C15_FalsyIsExhaustion ==
    /\ [](\A k \in 1 .. Len(results) : Truthy(results[k].value))
    /\ [](\A id \in Sources :
             \A k \in 1 .. Len(produced[id]) - 1 : Truthy(produced[id][k]))
    /\ [][ \A id \in Sources :
             YieldedFalsy(id) =>
                (pulls'[id] = pulls[id] /\ produced'[id] = produced[id]) ]_vars
    /\ []( ( /\ deferred = "resolved"
             /\ YieldedFalsy(1) \/ YieldedFalsy(2) )
           => /\ \A id \in Sources : pulls[id] = Len(Taken(id)) + 1
              /\ Len(value) <= Len(Taken(1)) + Len(Taken(2))
              /\ \A k \in 1 .. Len(value) :
                    value[k].value \in Range(Taken(1)) \cup Range(Taken(2))
              /\ ( /\ Defaults
                   /\ StrictlyAscending(Taken(1))
                   /\ StrictlyAscending(Taken(2)) )
                 => IsSortedMerge(value, Taken(1), Taken(2)) )

\* A = [1, 0, ...], B = [2]: the 0 ends A after its second pull
C15_Witness ==
    /\ deferred = "resolved"
    /\ produced[1] = << 1, 0 >>
    /\ produced[2] = << 2, Null >>
    /\ pulls[1] = 2
    /\ value = << [value |-> 1, exists |-> "left"],
                  [value |-> 2, exists |-> "right"] >>

\* the k-th invocation of the log is extractFn( v1, v2, 0 ) with both
\* values, right after compareFn( v1, v2 )
ExtractsBoth(k) ==
    /\ Truthy(log[k].v1) /\ Truthy(log[k].v2) /\ log[k].c = 0
    /\ k > 1
    /\ log[k - 1].fn = "compareFn"
    /\ log[k - 1].v1 = log[k].v1
    /\ log[k - 1].v2 = log[k].v2
ExtractsLeft(k) == Truthy(log[k].v1) /\ log[k].v2 = Null /\ log[k].c = -1
ExtractsRight(k) == log[k].v1 = Null /\ Truthy(log[k].v2) /\ log[k].c = 1

\* C16: every invocation of the extractor receives both values and 0 after
\* a comparison of the two, or the A value alone with -1, or the B value
\* alone with 1; the default extractor never raises its invalid-arguments
\* error.
C16_ExtractorArguments ==
    /\ \A k \in 1 .. Len(log) :
          log[k].fn = "extractFn" =>
             (ExtractsBoth(k) \/ ExtractsLeft(k) \/ ExtractsRight(k))
    /\ failure # "E_invalidArguments"
    /\ reason # "E_invalidArguments"

\* A = [2], B = [1, 2]: the extractor got the 1 of B alone, then both 2s
C16_Witness ==
    /\ deferred = "resolved"
    /\ options.extractFn = "default"
    /\ \E k \in 1 .. Len(log) : log[k].fn = "extractFn" /\ ExtractsRight(k)
    /\ \E k \in 1 .. Len(log) : log[k].fn = "extractFn" /\ ExtractsBoth(k)
    /\ value = << [value |-> 1, exists |-> "right"],
                  [value |-> 2, exists |-> "both"] >>

\* C17: with the default comparator, as long as the elements each source
\* has yielded are non-decreasing, the accumulator is non-decreasing by key
\* in every state, and so is the list of every notification.
C17_AccumulatorSorted ==
    ( /\ options.compareFn = "default"
      /\ NonDecreasing(Taken(1))
      /\ NonDecreasing(Taken(2)) )
    => /\ NonDecreasing(Keys(results))
       /\ \A k \in 1 .. Len(notifs) : NonDecreasing(Keys(notifs[k].list))

\* A = [2, 2, ..], B = [1], in mid-run: right 1, left 2, left 2
C17_Witness ==
    /\ deferred = "pending"
    /\ options.compareFn = "default"
    /\ wait.kind = "left"
    /\ Taken(1) = << 2, 2 >>
    /\ Taken(2) = << 1 >>
    /\ Keys(results) = << 1, 2, 2 >>
    /\ results[1].exists = "right"

\* The sequential three-way merge of the sequences A and B under the
\* default comparator: what a run over sources yielding A and B appends.
RECURSIVE Merge(_, _)
Merge(A, B) ==
    IF A = << >> /\ B = << >> THEN << >>
    ELSE IF B = << >>
    THEN << [value |-> Head(A), exists |-> "left"] >> \o Merge(Tail(A), B)
    ELSE IF A = << >>
    THEN << [value |-> Head(B), exists |-> "right"] >> \o Merge(A, Tail(B))
    ELSE IF Head(A) = Head(B)
    THEN << [value |-> Head(A), exists |-> "both"] >> \o Merge(Tail(A), Tail(B))
    ELSE IF Head(A) < Head(B)
    THEN << [value |-> Head(A), exists |-> "left"] >> \o Merge(Tail(A), B)
    ELSE << [value |-> Head(B), exists |-> "right"] >> \o Merge(A, Tail(B))

\* the sources pulled, in order: both at the start, and after each record
\* the side or sides the record consumed
RECURSIVE PullsAfter(_)
PullsAfter(list) ==
    IF list = << >> THEN << >>
    ELSE (IF Head(list).exists = "both" THEN << 1, 2 >>
          ELSE IF Head(list).exists = "left" THEN << 1 >> ELSE << 2 >>)
         \o PullsAfter(Tail(list))

\* the sources pulled so far, in the order of the pulls
PullLog == SelectSeq(log, LAMBDA e : e.fn = "pull")
Pulled == [k \in 1 .. Len(PullLog) |-> PullLog[k].v1]

IsPrefix(p, q) == Len(p) <= Len(q) /\ p = SubSeq(q, 1, Len(p))

\* C18: with the default comparator and as long as nothing fails, what the
\* engine has appended, notified and pulled is a function of the elements
\* the sources yielded alone: the records are those of the sequential
\* merge, the k-th notification carries its first k records, and the pulls
\* are the two of the start followed by those each record calls for.  So
\* neither the order in which the two pulls of a pull-both step complete
\* nor the form in which a source returns its elements (plain value or
\* future, function or object with next) makes a difference.
C18_OrderIndependent ==
    ( /\ deferred # "null"
      /\ options.compareFn = "default"
      /\ shape[1] # "invalid" /\ shape[2] # "invalid"
      /\ failure = NoErr )
    => /\ IsPrefix(results, Merge(Taken(1), Taken(2)))
       /\ Len(notifs) = Len(results)
       /\ \A k \in 1 .. Len(notifs) :
             notifs[k].list = SubSeq(Merge(Taken(1), Taken(2)), 1, k)
       /\ Pulled = << 1, 2 >> \o PullsAfter(results)
       /\ \A id \in Sources : pulls[id] = Occ(Pulled, id)
       /\ deferred = "resolved" => value = Merge(Taken(1), Taken(2))

\* in a pull-both step after a first pair, the pull on source B has
\* completed before the pull on source A, which returned a future
C18_Witness ==
    /\ options.compareFn = "default"
    /\ failure = NoErr
    /\ wait.kind = "both"
    /\ InFlight(1)
    /\ pend[2] = Fulfilled(2)
    /\ results = << [value |-> 1, exists |-> "both"] >>
    /\ Pulled = << 1, 2, 1, 2 >>

\* the A values and the B values handed to the extractor, in order
ExtractLog == SelectSeq(log, LAMBDA e : e.fn = "extractFn")
ExtractedOf(id) ==
    LET q == SelectSeq(ExtractLog,
                       LAMBDA e : (IF id = 1 THEN e.v1 ELSE e.v2) # Null)
    IN  [k \in 1 .. Len(q) |-> IF id = 1 THEN q[k].v1 ELSE q[k].v2]
Tagged(list, tags) == SelectSeq(list, LAMBDA r : r.exists \in tags)

\* C19: whatever the order of the elements and whatever the comparator
\* answers, a resolved run has pulled each source once more than the
\* elements it yielded, has handed the elements of A, each once and in
\* order, to the extractor of the 'left' and 'both' records, those of B to
\* the extractor of the 'right' and 'both' records, and its result has
\* |A| + |B| minus the number of 'both' records entries.
C19_NothingLostOrDuplicated ==
    ( /\ deferred = "resolved"
      /\ AllTruthy(Items(1))
      /\ AllTruthy(Items(2)) )
    => /\ pulls[1] = Len(Items(1)) + 1
       /\ pulls[2] = Len(Items(2)) + 1
       /\ ExtractedOf(1) = Items(1)
       /\ ExtractedOf(2) = Items(2)
       /\ Len(ExtractLog) = Len(value)
       /\ Keys(Tagged(value, {"left", "both"})) = Items(1)
       /\ Len(Tagged(value, {"right", "both"})) = Len(Items(2))
       /\ \A k \in 1 .. Len(Items(2)) :
             Tagged(value, {"right", "both"})[k].exists = "right"
                => Tagged(value, {"right", "both"})[k].value = Items(2)[k]
       /\ Len(value) = Len(Items(1)) + Len(Items(2))
                          - Len(Tagged(value, {"both"}))

\* unsorted A = [3, 1], B = [2], and a comparator that answers 0 for 3 and 2
C19_Witness ==
    /\ deferred = "resolved"
    /\ options.compareFn = "custom"
    /\ Items(1) = << 3, 1 >>
    /\ Items(2) = << 2 >>
    /\ value = << [value |-> 3, exists |-> "both"],
                  [value |-> 1, exists |-> "left"] >>
    /\ pulls[1] = 3
    /\ pulls[2] = 2

====
